---- MODULE Spec2Model ----
(***************************************************************************)
(* Model of dynadojo's FixedError challenge (src/src/dynadojo/             *)
(* challenges.py): one system_run cell with its trajectory pool, its       *)
(* memoized model_run and the exponential-then-binary search() for the     *)
(* number of training trajectories that reaches a target error.            *)
(*                                                                         *)
(* Errors and costs are floats in the program.  They are modelled as       *)
(* rationals <<numerator, denominator>> with a positive denominator, the   *)
(* float NaN as <<0, 0>>, and Python's None as the empty tuple.            *)
(* The system simulator and the model under test are collaborators: what   *)
(* they return for a training-set size n (error, ood error, control cost)  *)
(* is chosen by the environment the first time n is trained, and is fixed  *)
(* from then on by the memo.                                               *)
(***************************************************************************)
EXTENDS Integers, Sequences, FiniteSets, TLC

VARIABLES
    \* ---- FixedError object fields (FixedError.__init__) and system_run arguments
    n_start,             \* self.n_starts[latent_dim]
    n_precision,         \* self.n_precision
    n_window,            \* self.n_window
    n_max,               \* self.n_max
    target_error,        \* self._target_error
    test_ood,            \* system_run argument test_ood
    noisy,               \* system_run argument noisy
    curve,               \* the system/model pair plugged in: "inv" (error = 1/n, no
                         \* control), "free" (any error, no control), "mono" (an
                         \* error that never increases with n), "controlled"
    \* ---- per-cell state of one system_run
    master_training_set, \* the trajectory pool
    sys_draws,           \* position of the system's random stream
    memo,                \* n -> (error, total_cost)
    result,              \* the result rows, in the order they were appended
    models_trained,      \* how many times model_cls was constructed
    revealed,            \* n -> what the cell's system and model answered when a
                         \* model was trained on n trajectories
    \* ---- locals of search()
    pc, n_curr, n_prevs, error_prev, error_curr, increment, history, best_answer,
    n_lower, n_upper, error_lower, error_upper, n_target,
    exp_probed, reprobed, \* observers: pairs evaluated by the exponential phase
    \* ---- observers of direct calls of the helpers
    last_call,           \* the last direct model_run call: its n, window, return
                         \* value, the n it trained, and the number of calls so far
    requested,           \* the get_training_set requests so far
    returned,            \* what the last get_training_set returned
    \* ---- Task object fields (Task.__init__) and locals of Task.evaluate
    task,                \* self._N, _L, _E, _T, _C, _control_horizons, _reps,
                         \* _test_timesteps
    next_id,             \* the next value of the counter self._id
    rep,                 \* i of "for i in range(self._reps)"
    combo,               \* position in itertools.product(N, L, E, T, C), from 1
    challenge,           \* the challenge instance of the repetition, or None
    model,               \* the model of the combination, or None
    total_control_cost,
    horizon,             \* j of "for j in range(self._control_horizons)"
    calls,               \* the collaborator calls made for the combination so far
    data,                \* the columns being assembled: its rows and its id
    constructed,         \* observer: challenge and model constructions so far
    failure,             \* the message of the assertion that failed, or None
    \* ---- a second system_run invocation on the same FixedError object
    suspended,           \* the parameters and locals of the invocation that is
                         \* not running, or None when there is only one
    running              \* which of the invocations is running: 1 or 2

cfgVars    == <<n_start, n_precision, n_window, n_max, target_error, test_ood, noisy,
               curve>>
cellVars   == <<master_training_set, sys_draws, memo, result, models_trained>>
searchVars == <<pc, n_curr, n_prevs, error_prev, error_curr, increment, history,
                best_answer, n_lower, n_upper, error_lower, error_upper, n_target,
                exp_probed, reprobed>>
callVars   == <<last_call, requested, returned>>
evalVars   == <<task, next_id, rep, combo, challenge, model, total_control_cost,
               horizon, calls, data, constructed, failure>>
otherVars  == <<suspended, running>>
vars       == <<cfgVars, cellVars, revealed, searchVars, callVars, evalVars, otherVars>>

----------------------------------------------------------------------------
(* Bounds of the model *)
MaxStart      == 3      \* n_start ranges over 1..MaxStart
MaxPrecision  == 1      \* n_precision ranges over 0..MaxPrecision and the default
MaxWindow     == 1      \* n_window ranges over 0..MaxWindow
SmallNMax     == 4      \* an n_max below 10
MaxRequests   == 3      \* direct get_training_set requests per behaviour
MaxRequestN   == 12     \* largest n of a direct get_training_set request
MaxCalls      == 3      \* direct model_run calls per behaviour
MaxErr        == 4      \* errors range over 1..MaxErr
TargetErr     == 2      \* the target error of the free-curve cells
MaxCost       == 1      \* control costs range over 0..MaxCost

(* Program constants *)
Infinity          == 999999   \* np.inf: larger than every n
InitialPoolSize   == 10       \* the 10 of _gen_trainset(system, 10, ...)
IncrementDivisor  == 10       \* increment_max = n_max // 10
MultiplicativeFactor == 2     \* multiplicative_factor
DefaultPrecision  == 5        \* n_precision: int = 5
MidNMax   == IncrementDivisor       \* the smallest n_max with increment_max = 1
LargeNMax == 2 * IncrementDivisor   \* the smallest n_max where the increment doubles
None == <<>>
NaN  == <<0, 0>>

----------------------------------------------------------------------------
(* Float arithmetic and comparisons *)
Rat(a)     == <<a, 1>>
IsNaN(x)   == x[2] = 0
Lt(x, y)   == ~IsNaN(x) /\ ~IsNaN(y) /\ x[1] * y[2] < y[1] * x[2]
Le(x, y)   == ~IsNaN(x) /\ ~IsNaN(y) /\ x[1] * y[2] <= y[1] * x[2]
Gt(x, y)   == Lt(y, x)
SameNumber(x, y) == IF IsNaN(x) \/ IsNaN(y) THEN IsNaN(x) /\ IsNaN(y)
                    ELSE x[1] * y[2] = y[1] * x[2]
Max(a, b)  == IF a >= b THEN a ELSE b
Min(a, b)  == IF a <= b THEN a ELSE b
FloorHalf(a) == a \div 2
CeilHalf(a) == (a + 1) \div 2

RECURSIVE InsertSorted(_, _)
InsertSorted(x, s) ==
    IF s = <<>> THEN <<x>>
    ELSE IF Le(x, Head(s)) THEN <<x>> \o s
    ELSE <<Head(s)>> \o InsertSorted(x, Tail(s))

\* sorted(s).  (A bound variable over a one-element set names a value that
\* is then computed once.)
RECURSIVE SortValues(_)
SortValues(s) ==
    IF s = <<>> THEN <<>>
    ELSE CHOOSE t \in {InsertSorted(Head(s), rest) : rest \in {SortValues(Tail(s))}} : TRUE

\* The median of the sorted values t
MedianOfSorted(t) ==
    LET k  == Len(t)
        lo == t[k \div 2]
        hi == t[k \div 2 + 1]
    IN  IF k = 0 THEN NaN
        ELSE IF k % 2 = 1 THEN t[(k + 1) \div 2]
        ELSE <<lo[1] * hi[2] + hi[1] * lo[2], 2 * lo[2] * hi[2]>>

\* np.median: the middle of the sorted values, the mean of the two middle
\* ones for an even count, nan for an empty list.
Median(s) == CHOOSE m \in {MedianOfSorted(t) : t \in {SortValues(s)}} : TRUE

\* range(a, b) as a sequence
Range(a, b) == [i \in 1..Max(0, b - a) |-> a + i - 1]

----------------------------------------------------------------------------
(* The trajectory pool *)

\* _gen_trainset(system, k, t, noisy) with the system's random stream at
\* position draws: the k initial conditions are drawn as one batch, then,
\* for noisy data, the k noise samples as a second batch.  A trajectory is
\* identified by the stream positions it was made from.
GenTrainset(draws, k) ==
    [i \in 1..k |-> [init  |-> draws + i,
                     noise |-> IF noisy THEN draws + k + i ELSE 0]]

DrawsAfter(draws, k) == IF noisy THEN draws + 2 * k ELSE draws + k

\* get_training_set(n) on pool master: what it returns, the pool and the
\* stream position afterwards.  GetTrainingSetPrepend is the same with the
\* arguments of np.concatenate swapped.
\* get_training_set(n) without the slice [:n] of line 243
GetTrainingSetWhole(master, draws, n) ==
    IF n <= Len(master)
    THEN [ret |-> master, master |-> master, draws |-> draws]
    ELSE LET to_add == GenTrainset(draws, n - Len(master))
         IN  [ret    |-> master \o to_add,
              master |-> master \o to_add,
              draws  |-> DrawsAfter(draws, n - Len(master))]

GetTrainingSetPrepend(master, draws, n) ==
    IF n <= Len(master)
    THEN [ret |-> SubSeq(master, 1, n), master |-> master, draws |-> draws]
    ELSE LET to_add == GenTrainset(draws, n - Len(master))
         IN  [ret    |-> to_add \o master,
              master |-> to_add \o master,
              draws  |-> DrawsAfter(draws, n - Len(master))]

GetTrainingSet(master, draws, n) ==
    IF n <= Len(master)
    THEN [ret |-> SubSeq(master, 1, n), master |-> master, draws |-> draws]
    ELSE LET to_add == GenTrainset(draws, n - Len(master))
         IN  [ret    |-> master \o to_add,
              master |-> master \o to_add,
              draws  |-> DrawsAfter(draws, n - Len(master))]

\* The cell right after the set-up of system_run (lines 220-250): the first
\* 10 training trajectories have been drawn, nothing has been trained.
FreshCell ==
    [master  |-> GenTrainset(0, InitialPoolSize),
     draws   |-> DrawsAfter(0, InitialPoolSize),
     memo    |-> <<>>,
     result  |-> <<>>,
     trained |-> 0]

Cell == [master |-> master_training_set, draws |-> sys_draws, memo |-> memo,
         result |-> result, trained |-> models_trained]

SetCell(c) ==
    /\ master_training_set' = c.master
    /\ sys_draws' = c.draws
    /\ memo' = c.memo
    /\ result' = c.result
    /\ models_trained' = c.trained

----------------------------------------------------------------------------
(* model_run and run_helper *)

ErrVals  == {Rat(e) : e \in 1..MaxErr}
CostVals == {Rat(c) : c \in 0..MaxCost}

\* What training on n trajectories and testing can yield, per collaborator
\* pair: "inv" has error 1/n, "free" and "mono" any error level, and
\* "controlled" is a noisy trainer (the error model_run looks at is 1/n or
\* 2/n) that spends control cost (n modulo MaxCost + 1).
Outcomes(nn) ==
    LET oods == IF test_ood THEN ErrVals ELSE {None}
    IN  CASE curve = "inv" ->
               {[error |-> <<1, nn>>, ood_error |-> None, total_cost |-> Rat(0)]}
          [] curve = "controlled" ->
               [error      : IF test_ood THEN {Rat(1)} ELSE {<<1, nn>>, <<2, nn>>},
                ood_error  : IF test_ood THEN {<<1, nn>>, <<2, nn>>} ELSE {None},
                total_cost : {Rat(nn % (MaxCost + 1))}]
          [] OTHER ->
               [error : ErrVals, ood_error : oods, total_cost : {Rat(0)}]

\* run_helper(n) on cell c; outs[n] is what the collaborators yield for n.
\* RunHelperForgets is run_helper without its memo[n] = result.
RunHelperForgets(c, n, outs) ==
    IF n \in DOMAIN c.memo
    THEN [cell |-> c, ret |-> c.memo[n]]
    ELSE LET o   == outs[n]
             ret == IF test_ood THEN <<o.ood_error, o.total_cost>>
                    ELSE <<o.error, o.total_cost>>
             row == [n |-> n, error |-> o.error, ood_error |-> o.ood_error,
                     total_cost |-> o.total_cost]
         IN  CHOOSE res \in
               {[cell |-> [master  |-> g.master,
                           draws   |-> g.draws,
                           memo    |-> c.memo,
                           result  |-> Append(c.result, row),
                           trained |-> c.trained + 1],
                 ret  |-> ret] :
                  g \in {GetTrainingSet(c.master, c.draws, n)}} : TRUE

RunHelper(c, n, outs) ==
    IF n \in DOMAIN c.memo
    THEN [cell |-> c, ret |-> c.memo[n]]
    ELSE LET o   == outs[n]
             ret == IF test_ood THEN <<o.ood_error, o.total_cost>>
                    ELSE <<o.error, o.total_cost>>
             row == [n |-> n, error |-> o.error, ood_error |-> o.ood_error,
                     total_cost |-> o.total_cost]
         IN  CHOOSE res \in
               {[cell |-> [master  |-> g.master,
                           draws   |-> g.draws,
                           memo    |-> c.memo @@ (n :> ret),
                           result  |-> Append(c.result, row),
                           trained |-> c.trained + 1],
                 ret  |-> ret] :
                  g \in {GetTrainingSet(c.master, c.draws, n)}} : TRUE

\* [run_helper(nn) for nn in R]: the cell afterwards and the list of results.
\* (The CHOOSE over a one-element set only names a value.)
RECURSIVE RunAll(_, _, _)
RunAll(c, R, outs) ==
    IF R = <<>> THEN [cell |-> c, rets |-> <<>>]
    ELSE CHOOSE res \in UNION {
            {[cell |-> rest.cell, rets |-> <<first.ret>> \o rest.rets] :
                rest \in {RunAll(first.cell, Tail(R), outs)}} :
            first \in {RunHelper(c, Head(R), outs)}} : TRUE

\* the window without the clamp at n_max
WindowRangeUnclamped(n, window) == Range(Max(1, n - window), n + window + 1)

\* range(max(1, n - window), min(n + window + 1, self.n_max))
WindowRange(n, window) == Range(Max(1, n - window), Min(n + window + 1, n_max))

\* model_run(n, window) on cell c: the cell afterwards and (error, total_cost)
ModelRun(c, n, window, outs) ==
    IF window > 0
    THEN CHOOSE res \in
           {[cell |-> run.cell,
             ret  |-> <<Median([i \in DOMAIN run.rets |-> run.rets[i][1]]),
                        Median([i \in DOMAIN run.rets |-> run.rets[i][2]])>>] :
              run \in {RunAll(c, WindowRange(n, window), outs)}} : TRUE
    ELSE RunHelper(c, n, outs)

\* The n that model_run(n, window) trains for the first time, and every way
\* the collaborators can answer for them.
ToTrain(c, n, window) ==
    (IF window > 0
     THEN {WindowRange(n, window)[i] : i \in DOMAIN WindowRange(n, window)}
     ELSE {n}) \ DOMAIN c.memo

\* The error the search sees for nn when the collaborators answer outs
SeenError(c, outs, nn) ==
    IF nn \in DOMAIN c.memo THEN c.memo[nn][1]
    ELSE IF test_ood THEN outs[nn].ood_error ELSE outs[nn].error

\* A "mono" pair never does worse with more trajectories.
NonIncreasing(c, outs) ==
    \A a \in DOMAIN outs : \A b \in DOMAIN c.memo \cup DOMAIN outs :
        /\ a < b => Le(SeenError(c, outs, b), SeenError(c, outs, a))
        /\ b < a => Le(SeenError(c, outs, a), SeenError(c, outs, b))

Answers(c, n, window) ==
    LET T == ToTrain(c, n, window) IN
    CASE curve = "inv"  -> {[nn \in T |-> CHOOSE o \in Outcomes(nn) : TRUE]}
      [] curve = "mono" -> {outs \in [T -> Outcomes(0)] : NonIncreasing(c, outs)}
      [] curve = "free" -> [T -> Outcomes(0)]
      [] OTHER -> {outs \in [T -> UNION {Outcomes(nn) : nn \in T}] :
                      \A nn \in T : outs[nn] \in Outcomes(nn)}

----------------------------------------------------------------------------
(* search(): the exponential phase *)

IncrementMax == n_max \div IncrementDivisor

\* min(max(1, math.ceil(increment * multiplicative_factor)), increment_max)
NextIncrement(inc) == Min(Max(1, inc * MultiplicativeFactor), IncrementMax)

\* (n_curr, increment) in history
CycleDetected(hist, n, inc) == <<n, inc>> \in hist

\* history.add((n_curr, increment)), and the same step forgotten
HistoryAddNothing(hist, n, inc) == hist

HistoryAdd(hist, n, inc) == hist \cup {<<n, inc>>}

\* best_answer after n_curr was run with error e
BestAnswerLatest(best, n, e) == IF Le(e, target_error) THEN n ELSE best
BestAnswer(best, n, e) == IF Le(e, target_error) /\ n < best THEN n ELSE best

\* max(1, n_curr // multiplicative_factor), and the same without the floor at 1
HalveNoFloor(n) == n \div MultiplicativeFactor

Halve(n) == Max(1, n \div MultiplicativeFactor)

\* error_curr > error_prev
ErrorIncreasing(e, eprev) == Gt(e, eprev)

MoveForward(n, prevs, inc, e) ==
    [ctl |-> "continue", ret |-> 0, n_curr |-> n + inc, n_prevs |-> Append(prevs, n),
     error_prev |-> e, increment |-> NextIncrement(inc)]

\* Lines 333-372: what one iteration does after n_curr = n was run with
\* error e.  ctl is "continue" (next iteration), "return" (search returns
\* ret) or "break" (go to the binary phase).
ExpDecide(n, prevs, eprev, inc, e) ==
    LET k == Len(prevs) IN
    IF k > 0
    THEN IF ErrorIncreasing(e, eprev)
         THEN IF k > 1
              THEN LET n_prev_prev == prevs[k - 1] IN
                   IF n - n_prev_prev <= Max(n_precision, 1)
                   THEN [ctl |-> "return", ret |-> Infinity, n_curr |-> n,
                         n_prevs |-> SubSeq(prevs, 1, k - 2), error_prev |-> eprev,
                         increment |-> inc]
                   ELSE [ctl |-> "continue", ret |-> 0, n_curr |-> n_prev_prev,
                         n_prevs |-> <<>>, error_prev |-> None, increment |-> 1]
              ELSE LET popped == prevs[k] IN
                   IF popped < n_precision
                   THEN [ctl |-> "return", ret |-> popped, n_curr |-> popped,
                         n_prevs |-> <<>>, error_prev |-> eprev, increment |-> inc]
                   ELSE [ctl |-> "continue", ret |-> 0, n_curr |-> Halve(popped),
                         n_prevs |-> <<>>, error_prev |-> None, increment |-> 1]
         ELSE IF Lt(e, target_error)
              THEN [ctl |-> "break", ret |-> 0, n_curr |-> n, n_prevs |-> prevs,
                    error_prev |-> eprev, increment |-> inc]
              ELSE MoveForward(n, prevs, inc, e)
    ELSE IF Gt(e, target_error)
         THEN MoveForward(n, prevs, inc, e)
         ELSE IF n < n_precision + 1
              THEN [ctl |-> "return", ret |-> n, n_curr |-> n, n_prevs |-> prevs,
                    error_prev |-> eprev, increment |-> inc]
              ELSE [ctl |-> "continue", ret |-> 0, n_curr |-> Halve(n),
                    n_prevs |-> prevs, error_prev |-> eprev, increment |-> inc]

\* Lines 310-317: search() is entered.
SearchBegin ==
    /\ pc = "call"
    /\ pc' = "exp"
    /\ n_curr' = n_start
    /\ n_prevs' = <<>>
    /\ error_prev' = None
    /\ increment' = 1
    /\ history' = {}
    /\ best_answer' = Infinity
    /\ UNCHANGED <<error_curr, n_lower, n_upper, error_lower, error_upper, n_target,
                   exp_probed, reprobed>>
    /\ UNCHANGED <<evalVars, cfgVars, otherVars, cellVars, revealed, callVars>>

\* Lines 319-320
ExpNeverReached ==
    /\ pc = "exp"
    /\ n_curr > n_max
    /\ n_target' = 0 - 1
    /\ pc' = "done"
    /\ UNCHANGED <<n_curr, n_prevs, error_prev, error_curr, increment, history,
                   best_answer, n_lower, n_upper, error_lower, error_upper,
                   exp_probed, reprobed>>
    /\ UNCHANGED <<evalVars, cfgVars, otherVars, cellVars, revealed, callVars>>

\* Lines 322-324
ExpCycle ==
    /\ pc = "exp"
    /\ ~(n_curr > n_max)
    /\ CycleDetected(history, n_curr, increment)
    /\ n_target' = best_answer
    /\ pc' = "done"
    /\ UNCHANGED <<n_curr, n_prevs, error_prev, error_curr, increment, history,
                   best_answer, n_lower, n_upper, error_lower, error_upper,
                   exp_probed, reprobed>>
    /\ UNCHANGED <<evalVars, cfgVars, otherVars, cellVars, revealed, callVars>>

\* Lines 326-372: one iteration that runs the model on n_curr
ExpProbe ==
    /\ pc = "exp"
    /\ ~(n_curr > n_max)
    /\ ~CycleDetected(history, n_curr, increment)
    /\ \E outs \in Answers(Cell, n_curr, n_window) :
       /\ revealed' = revealed @@ outs
       /\ \E run \in {ModelRun(Cell, n_curr, n_window, outs)} :
          \E d \in {ExpDecide(n_curr, n_prevs, error_prev, increment, run.ret[1])} :
            LET e == run.ret[1]
            IN  /\ SetCell(run.cell)
                /\ history' = HistoryAdd(history, n_curr, increment)
                /\ error_curr' = e
                /\ best_answer' = BestAnswer(best_answer, n_curr, e)
                /\ n_curr' = d.n_curr
                /\ n_prevs' = d.n_prevs
                /\ error_prev' = d.error_prev
                /\ increment' = d.increment
                /\ pc' = CASE d.ctl = "return" -> "done"
                           [] d.ctl = "break" -> "bin_start"
                           [] OTHER -> "exp"
                /\ n_target' = IF d.ctl = "return" THEN d.ret ELSE n_target
    /\ exp_probed' = exp_probed \cup {<<n_curr, increment>>}
    /\ reprobed' = (reprobed \/ <<n_curr, increment>> \in exp_probed)
    /\ UNCHANGED <<n_lower, n_upper, error_lower, error_upper>>
    /\ UNCHANGED <<evalVars, cfgVars, otherVars, callVars>>

----------------------------------------------------------------------------
(* search(): the binary phase *)

\* Lines 393-398: which side of the interval is kept
KeepLeftAlways(e_lower, e_mid) == TRUE

KeepLeft(e_lower, e_mid) == Gt(e_lower, target_error) /\ Gt(target_error, e_mid)

\* n_upper - n_lower <= max(self.n_precision, 1)
WithinPrecision(lower, upper) == upper - lower <= Max(n_precision, 1)

\* Lines 379-382
BinStart ==
    /\ pc = "bin_start"
    /\ \E outs1 \in Answers(Cell, n_prevs[Len(n_prevs)], n_window) :
       \E run1 \in {ModelRun(Cell, n_prevs[Len(n_prevs)], n_window, outs1)} :
       \E outs2 \in Answers(run1.cell, n_curr, n_window) :
       \E run2 \in {ModelRun(run1.cell, n_curr, n_window, outs2)} :
           /\ revealed' = revealed @@ outs1 @@ outs2
           /\ SetCell(run2.cell)
           /\ n_lower' = n_prevs[Len(n_prevs)]
           /\ error_lower' = run1.ret[1]
           /\ n_upper' = n_curr
           /\ error_upper' = run2.ret[1]
    /\ pc' = "bin"
    /\ UNCHANGED <<n_curr, n_prevs, error_prev, error_curr, increment, history,
                   best_answer, n_target, exp_probed, reprobed>>
    /\ UNCHANGED <<evalVars, cfgVars, otherVars, callVars>>

\* Lines 384-387
BinReturn ==
    /\ pc = "bin"
    /\ WithinPrecision(n_lower, n_upper)
    /\ n_curr' = (n_lower + n_upper) \div 2
    /\ n_target' = CeilHalf(n_lower + n_upper)
    /\ pc' = "done"
    /\ UNCHANGED <<n_prevs, error_prev, error_curr, increment, history, best_answer,
                   n_lower, n_upper, error_lower, error_upper, exp_probed, reprobed>>
    /\ UNCHANGED <<evalVars, cfgVars, otherVars, cellVars, revealed, callVars>>

\* Lines 384-398
BinProbe ==
    /\ pc = "bin"
    /\ ~WithinPrecision(n_lower, n_upper)
    /\ LET mid == (n_lower + n_upper) \div 2 IN
       \E outs \in Answers(Cell, mid, n_window) :
       /\ revealed' = revealed @@ outs
       /\ \E run \in {ModelRun(Cell, mid, n_window, outs)} :
            LET e == run.ret[1]
            IN  /\ SetCell(run.cell)
                /\ n_curr' = mid
                /\ error_curr' = e
                /\ n_upper' = IF KeepLeft(error_lower, e) THEN mid ELSE n_upper
                /\ error_upper' = IF KeepLeft(error_lower, e) THEN e ELSE error_upper
                /\ n_lower' = IF KeepLeft(error_lower, e) THEN n_lower ELSE mid
                /\ error_lower' = IF KeepLeft(error_lower, e) THEN error_lower ELSE e
    /\ UNCHANGED <<pc, n_prevs, error_prev, increment, history, best_answer, n_target,
                   exp_probed, reprobed>>
    /\ UNCHANGED <<evalVars, cfgVars, otherVars, callVars>>

----------------------------------------------------------------------------
(* Specification of one system_run *)

CellInit ==
    /\ master_training_set = FreshCell.master
    /\ sys_draws = FreshCell.draws
    /\ memo = FreshCell.memo
    /\ result = FreshCell.result
    /\ models_trained = FreshCell.trained
    /\ revealed = <<>>

SearchLocalsInit ==
    /\ n_curr = 0 /\ n_prevs = <<>> /\ error_prev = None /\ error_curr = None
    /\ increment = 0 /\ history = {} /\ best_answer = Infinity
    /\ n_lower = 0 /\ n_upper = 0 /\ error_lower = None /\ error_upper = None
    /\ n_target = 0
    /\ exp_probed = {} /\ reprobed = FALSE

CallsInit ==
    /\ last_call = [n |-> 0, window |-> 0, ret |-> None, fresh |-> {}, calls |-> 0]
    /\ requested = <<>>
    /\ returned = <<>>

\* There is one system_run invocation only
Alone == suspended = None /\ running = 1

\* No Task is evaluated in this system_run
EvalIdle ==
    /\ task = None /\ next_id = 0 /\ rep = 0 /\ combo = 0
    /\ challenge = None /\ model = None
    /\ total_control_cost = 0 /\ horizon = 0 /\ calls = <<>>
    /\ data = [rows |-> <<>>, id |-> None]
    /\ constructed = [challenges |-> 0, models |-> 0]
    /\ failure = None

Precisions == 0..MaxPrecision \cup {DefaultPrecision}

\* The end-to-end scenario of the documentation: error = 1/n, target 0.1
ScenarioConfig ==
    /\ curve = "inv"
    /\ n_start = 1 /\ n_window = 0 /\ n_precision = 1 /\ n_max = 100
    /\ target_error = <<1, 10>>

\* Any error curve, on cells where the increment stays 1 (n_max // 10 <= 1)
FreeConfig ==
    /\ curve = "free"
    /\ n_start \in 1..MaxStart
    /\ n_precision \in Precisions
    /\ \/ n_window = 0 /\ n_max \in {1, SmallNMax, MidNMax}
       \/ n_window \in 1..MaxWindow /\ n_max \in {1, SmallNMax}
    /\ target_error = Rat(TargetErr)

\* Error curves that never increase, also on cells where the increment doubles
MonoConfig ==
    /\ curve = "mono"
    /\ n_start \in 1..MaxStart
    /\ n_precision \in Precisions
    /\ \/ n_window = 0 /\ n_max \in {SmallNMax, MidNMax, LargeNMax}
       \/ n_window \in 1..MaxWindow /\ n_max = SmallNMax
       \/ n_window = 1 /\ n_max = MidNMax
    /\ target_error = Rat(TargetErr)

Init ==
    /\ (ScenarioConfig \/ FreeConfig \/ MonoConfig)
    /\ test_ood = FALSE
    /\ noisy = FALSE
    /\ CellInit
    /\ SearchLocalsInit
    /\ CallsInit
    /\ Alone
    /\ EvalIdle
    /\ pc = "call"

Next ==
    \/ SearchBegin
    \/ ExpNeverReached
    \/ ExpCycle
    \/ ExpProbe
    \/ BinStart
    \/ BinReturn
    \/ BinProbe

Spec == Init /\ [][Next]_vars

----------------------------------------------------------------------------
(* Specification of the trajectory pool: get_training_set called directly *)

\* get_training_set(n), lines 235-247
RequestTrainingSet ==
    /\ pc = "pool"
    /\ Len(requested) < MaxRequests
    /\ \E n \in 1..MaxRequestN :
       \E g \in {GetTrainingSet(master_training_set, sys_draws, n)} :
         /\ master_training_set' = g.master
         /\ sys_draws' = g.draws
         /\ returned' = g.ret
         /\ requested' = Append(requested, n)
    /\ UNCHANGED <<memo, result, models_trained, revealed, last_call>>
    /\ UNCHANGED <<evalVars, cfgVars, otherVars, searchVars>>

PoolInit ==
    /\ curve = "free"
    /\ n_start = 1 /\ n_precision = 0 /\ n_window = 0 /\ n_max = MaxRequestN
    /\ target_error = Rat(TargetErr)
    /\ test_ood = FALSE
    /\ noisy \in BOOLEAN
    /\ CellInit
    /\ SearchLocalsInit
    /\ CallsInit
    /\ Alone
    /\ EvalIdle
    /\ pc = "pool"

PoolNext == RequestTrainingSet

PoolSpec == PoolInit /\ [][PoolNext]_vars

----------------------------------------------------------------------------
(* Specification of model_run called directly, in any order *)

\* model_run(n, window), lines 252-292
CallModelRun ==
    /\ pc = "model_run"
    /\ last_call.calls < MaxCalls
    /\ \E n \in 1..n_max : \E window \in 0..MaxWindow :
       \E outs \in Answers(Cell, n, window) :
       /\ revealed' = revealed @@ outs
       /\ \E run \in {ModelRun(Cell, n, window, outs)} :
            /\ SetCell(run.cell)
            /\ last_call' = [n |-> n, window |-> window, ret |-> run.ret,
                             fresh |-> ToTrain(Cell, n, window),
                             calls |-> last_call.calls + 1]
    /\ UNCHANGED <<requested, returned>>
    /\ UNCHANGED <<evalVars, cfgVars, otherVars, searchVars>>

ModelRunInit ==
    /\ curve = "controlled"
    /\ n_start = 1 /\ n_precision = 0 /\ n_window = 0
    /\ n_max \in {1, SmallNMax}
    /\ target_error = Rat(TargetErr)
    /\ test_ood \in BOOLEAN
    /\ noisy = FALSE
    /\ CellInit
    /\ SearchLocalsInit
    /\ CallsInit
    /\ Alone
    /\ EvalIdle
    /\ pc = "model_run"

ModelRunNext == CallModelRun

ModelRunSpec == ModelRunInit /\ [][ModelRunNext]_vars

----------------------------------------------------------------------------
(* Two system_run invocations on one FixedError object, for two cells      *)
(* (repetition, latent dimension), interleaved in any order.  What         *)
(* system_run keeps in parameters and local variables (lines 201-250 and   *)
(* 310-317) belongs to the invocation; n_precision, n_window, n_max and    *)
(* target_error are fields of the object both invocations read.            *)

\* The parameters and locals of the running invocation
Frame ==
    [n_start |-> n_start, curve |-> curve,
     master |-> master_training_set, draws |-> sys_draws, memo |-> memo,
     result |-> result, trained |-> models_trained, revealed |-> revealed,
     pc |-> pc, n_curr |-> n_curr, n_prevs |-> n_prevs, error_prev |-> error_prev,
     error_curr |-> error_curr, increment |-> increment, history |-> history,
     best_answer |-> best_answer, n_lower |-> n_lower, n_upper |-> n_upper,
     error_lower |-> error_lower, error_upper |-> error_upper,
     n_target |-> n_target, exp_probed |-> exp_probed, reprobed |-> reprobed]

\* An invocation that has done its set-up (lines 220-250) and not begun to search
FreshFrame(start, crv) ==
    [n_start |-> start, curve |-> crv,
     master |-> FreshCell.master, draws |-> FreshCell.draws, memo |-> FreshCell.memo,
     result |-> FreshCell.result, trained |-> FreshCell.trained, revealed |-> <<>>,
     pc |-> "call", n_curr |-> 0, n_prevs |-> <<>>, error_prev |-> None,
     error_curr |-> None, increment |-> 0, history |-> {},
     best_answer |-> Infinity, n_lower |-> 0, n_upper |-> 0,
     error_lower |-> None, error_upper |-> None,
     n_target |-> 0, exp_probed |-> {}, reprobed |-> FALSE]

\* Line 249: memo is a local of system_run, so an invocation that is resumed
\* finds its own; MemoOfSelf is a memo kept on the FixedError object instead
MemoOfSelf(fr, current) == current

MemoOfFrame(fr, current) == fr.memo

\* The scheduler suspends the running invocation and resumes the other one
Switch ==
    /\ suspended # None
    /\ suspended.pc # "done"
    /\ suspended' = Frame
    /\ running' = 3 - running
    /\ n_start' = suspended.n_start
    /\ curve' = suspended.curve
    /\ master_training_set' = suspended.master
    /\ sys_draws' = suspended.draws
    /\ memo' = MemoOfFrame(suspended, memo)
    /\ result' = suspended.result
    /\ models_trained' = suspended.trained
    /\ revealed' = suspended.revealed
    /\ pc' = suspended.pc
    /\ n_curr' = suspended.n_curr
    /\ n_prevs' = suspended.n_prevs
    /\ error_prev' = suspended.error_prev
    /\ error_curr' = suspended.error_curr
    /\ increment' = suspended.increment
    /\ history' = suspended.history
    /\ best_answer' = suspended.best_answer
    /\ n_lower' = suspended.n_lower
    /\ n_upper' = suspended.n_upper
    /\ error_lower' = suspended.error_lower
    /\ error_upper' = suspended.error_upper
    /\ n_target' = suspended.n_target
    /\ exp_probed' = suspended.exp_probed
    /\ reprobed' = suspended.reprobed
    /\ UNCHANGED <<n_precision, n_window, n_max, target_error, test_ood, noisy>>
    /\ UNCHANGED <<callVars, evalVars>>

\* Two cells of the documented scenario (error = 1/n, target 0.1), or two
\* cells with different collaborators on a small n_max
CellsInit ==
    /\ test_ood = FALSE
    /\ noisy = FALSE
    /\ \/ /\ n_precision = 1 /\ n_window = 0 /\ n_max = 100
          /\ target_error = <<1, 10>>
          /\ curve = "inv"
          /\ n_start \in 1..MaxStart
          /\ \E start \in 1..MaxStart : suspended = FreshFrame(start, "inv")
       \/ /\ n_precision = 0 /\ n_window \in 0..MaxWindow /\ n_max \in {1, SmallNMax}
          /\ target_error = Rat(TargetErr)
          /\ curve = "free"
          /\ n_start = 1
          /\ suspended = FreshFrame(MaxStart, "inv")
    /\ running = 1
    /\ CellInit
    /\ SearchLocalsInit
    /\ CallsInit
    /\ EvalIdle
    /\ pc = "call"

CellsNext ==
    \/ Next
    \/ Switch

CellsSpec == CellsInit /\ [][CellsNext]_vars

----------------------------------------------------------------------------
(* Task.evaluate (src/dynascale/abstractions.py): the parameter sweep and  *)
(* the closed-loop trainer.  A trajectory batch has shape                  *)
(* (n, timesteps, embed_dim); x[:, 0] is the state at time index 0 of      *)
(* every trajectory of x.  The cost of a control and the loss are the      *)
(* collaborators' answers.                                                 *)

MaxReps      == 2      \* self._reps ranges over 0..MaxReps
MaxHorizons  == 3      \* control_horizons ranges over 1..MaxHorizons
MaxStepCost  == 2      \* the cost of one control ranges over 0..MaxStepCost
HalfCeiling  == 1      \* half of the positive max_control_cost of the sweeps
MaxDim       == 2      \* latent and embedding dimensions are 1 or MaxDim
MaxTimesteps == 2      \* timesteps are 1 or MaxTimesteps

\* itertools.product(N, L, E, T, C): its length and its k-th tuple (from 1),
\* the last list varying fastest
ProductLen(tk) == Len(tk.N) * Len(tk.L) * Len(tk.E) * Len(tk.T) * Len(tk.C)

ProductAt(tk, k) ==
    LET c0 == k - 1
        t0 == c0 \div Len(tk.C)
        e0 == t0 \div Len(tk.T)
        l0 == e0 \div Len(tk.E)
        n0 == l0 \div Len(tk.L)
    IN  [n                |-> tk.N[(n0 % Len(tk.N)) + 1],
         latent_dim       |-> tk.L[(l0 % Len(tk.L)) + 1],
         embed_dim        |-> tk.E[(e0 % Len(tk.E)) + 1],
         timesteps        |-> tk.T[(t0 % Len(tk.T)) + 1],
         max_control_cost |-> tk.C[(c0 % Len(tk.C)) + 1]]

\* The combination the loop body is at
Combination == ProductAt(task, combo)

\* if embed_dim < latent_dim: continue
Skipped(cmb) == cmb.embed_dim < cmb.latent_dim

\* One collaborator call of the trainer: op is the method, j the horizon,
\* init what make_data starts from, cost what calc_control_cost returned
NoInit == [of |-> "", at |-> 0]
Call(op, j, init, cost) == [op |-> op, j |-> j, init |-> init, cost |-> cost]

\* x[:, 0]: the states at time index 0 of the batch x
FirstStateOfX == [of |-> "x", at |-> 0]

\* Lines 164-171: the calls of horizon j, cost being the cost of the control
HorizonCalls(j, cost) ==
    IF j = 0
    THEN << Call("make_data", j, [of |-> "train_init_conds", at |-> 0], 0),
            Call("fit", j, NoInit, 0) >>
    ELSE << Call("act", j, NoInit, 0),
            Call("calc_control_cost", j, NoInit, cost),
            Call("make_data", j, FirstStateOfX, 0),
            Call("fit", j, NoInit, 0) >>

\* assert total_control_cost <= max_control_cost
WithinBudgetStrict(total, ceiling) == total < ceiling
WithinBudget(total, ceiling) == total <= ceiling

\* model.predict(test[:, 0], timesteps): the time length of the prediction
\* of a model that was constructed with timesteps (line 34)
PredictedTimesteps(mdl) == mdl.timesteps

\* calc_loss: assert x.shape == y.shape, for a prediction and a test set
\* over the same test_examples and embed_dim
SameShape(pred_timesteps, test_timesteps) == pred_timesteps = test_timesteps

\* What a control can cost: nothing for a model that never controls, any
\* amount for one that does
StepCosts == IF task.controls THEN 0..MaxStepCost ELSE {0}

\* pd.DataFrame(data): the scalar data["id"] is broadcast to every row
Table == [r \in DOMAIN data.rows |-> [row |-> data.rows[r], id |-> data.id]]

\* Line 144-145: a repetition begins
RepBegin ==
    /\ pc = "rep"
    /\ rep < task.reps
    /\ challenge' = None
    /\ combo' = 1
    /\ pc' = "combo"
    /\ UNCHANGED <<task, next_id, rep, model, total_control_cost, horizon, calls,
                   data, constructed, failure>>
    /\ UNCHANGED <<cfgVars, otherVars, cellVars, revealed, callVars>>
    /\ UNCHANGED <<n_curr, n_prevs, error_prev, error_curr, increment, history,
                   best_answer, n_lower, n_upper, error_lower, error_upper, n_target,
                   exp_probed, reprobed>>

\* Lines 148-149: a combination whose embedding is smaller than its latent
\* dimension is passed over
ComboSkip ==
    /\ pc = "combo"
    /\ combo <= ProductLen(task)
    /\ Skipped(Combination)
    /\ combo' = combo + 1
    /\ UNCHANGED <<task, next_id, rep, challenge, model, total_control_cost, horizon,
                   calls, data, constructed, failure>>
    /\ UNCHANGED <<cfgVars, otherVars, cellVars, revealed, searchVars, callVars>>

\* Lines 150-155: the system instance of the repetition, constructed at the
\* first combination that needs one (fresh numbers the instances) and given
\* the dimensions of the combination; ReconfigureNever keeps the dimensions
\* the instance was constructed with
ReconfigureNever(ch, cmb, fresh) ==
    IF ch = None
    THEN [instance |-> fresh, latent_dim |-> cmb.latent_dim, embed_dim |-> cmb.embed_dim]
    ELSE ch

Reconfigure(ch, cmb, fresh) ==
    LET made == IF ch = None
                THEN [instance |-> fresh, latent_dim |-> cmb.latent_dim,
                      embed_dim |-> cmb.embed_dim]
                ELSE ch
        relat == IF cmb.latent_dim # made.latent_dim
                 THEN [made EXCEPT !.latent_dim = cmb.latent_dim]
                 ELSE made
    IN  IF cmb.embed_dim # relat.embed_dim
        THEN [relat EXCEPT !.embed_dim = cmb.embed_dim]
        ELSE relat

\* Lines 150-161: the challenge is constructed or reconfigured, the model and
\* the training initial conditions are made
ComboBegin ==
    /\ pc = "combo"
    /\ combo <= ProductLen(task)
    /\ ~Skipped(Combination)
    /\ challenge' = Reconfigure(challenge, Combination, constructed.challenges + 1)
    /\ model' = [embed_dim        |-> Combination.embed_dim,
                 timesteps        |-> Combination.timesteps,
                 max_control_cost |-> Combination.max_control_cost]
    /\ constructed' = [challenges |-> IF challenge = None
                                      THEN constructed.challenges + 1
                                      ELSE constructed.challenges,
                       models     |-> constructed.models + 1]
    /\ calls' = << Call("model_cls", 0, NoInit, 0),
                   Call("make_init_conds", 0, NoInit, 0) >>
    /\ total_control_cost' = 0
    /\ horizon' = 0
    /\ pc' = "horizon"
    /\ UNCHANGED <<task, next_id, rep, combo, data, failure>>
    /\ UNCHANGED <<cfgVars, otherVars, cellVars, revealed, callVars>>
    /\ UNCHANGED <<n_curr, n_prevs, error_prev, error_curr, increment, history,
                   best_answer, n_lower, n_upper, error_lower, error_upper, n_target,
                   exp_probed, reprobed>>

\* Lines 163-171: one control horizon
Horizon ==
    /\ pc = "horizon"
    /\ horizon < task.control_horizons
    /\ \E cost \in (IF horizon = 0 THEN {0} ELSE StepCosts) :
         /\ total_control_cost' = total_control_cost + cost
         /\ calls' = calls \o HorizonCalls(horizon, cost)
    /\ horizon' = horizon + 1
    /\ UNCHANGED <<task, next_id, rep, combo, challenge, model, data, constructed,
                   failure>>
    /\ UNCHANGED <<cfgVars, otherVars, cellVars, revealed, searchVars, callVars>>

\* Line 173
BudgetCheck ==
    /\ pc = "horizon"
    /\ horizon = task.control_horizons
    /\ IF WithinBudget(total_control_cost, Combination.max_control_cost)
       THEN pc' = "test" /\ failure' = failure
       ELSE pc' = "failed" /\ failure' = "Control cost exceeded!"
    /\ UNCHANGED <<task, next_id, rep, combo, challenge, model, total_control_cost,
                   horizon, calls, data, constructed>>
    /\ UNCHANGED <<cfgVars, otherVars, cellVars, revealed, callVars>>
    /\ UNCHANGED <<n_curr, n_prevs, error_prev, error_curr, increment, history,
                   best_answer, n_lower, n_upper, error_lower, error_upper, n_target,
                   exp_probed, reprobed>>

\* Lines 175-186: the test set, the prediction, the loss and the row
TestAndRecord ==
    /\ pc = "test"
    /\ calls' = calls \o << Call("make_init_conds", horizon, NoInit, 0),
                            Call("make_data", horizon,
                                 [of |-> "test_init_conds", at |-> 0], 0),
                            Call("predict", horizon, NoInit, 0),
                            Call("calc_loss", horizon, NoInit, 0) >>
    /\ IF SameShape(PredictedTimesteps(model), task.test_timesteps)
       THEN /\ data' = [data EXCEPT !.rows = Append(@,
                           [n          |-> Combination.n,
                            latent_dim |-> Combination.latent_dim,
                            embed_dim  |-> Combination.embed_dim,
                            timesteps  |-> Combination.timesteps,
                            loss       |-> 0,
                            cost       |-> total_control_cost,
                            rep        |-> rep,
                            combo      |-> combo])]
            /\ combo' = combo + 1
            /\ pc' = "combo"
            /\ failure' = failure
       ELSE /\ pc' = "failed"
            /\ failure' = "calc_loss: x.shape == y.shape"
            /\ UNCHANGED <<data, combo>>
    /\ UNCHANGED <<task, next_id, rep, challenge, model, total_control_cost, horizon,
                   constructed>>
    /\ UNCHANGED <<cfgVars, otherVars, cellVars, revealed, callVars>>
    /\ UNCHANGED <<n_curr, n_prevs, error_prev, error_curr, increment, history,
                   best_answer, n_lower, n_upper, error_lower, error_upper, n_target,
                   exp_probed, reprobed>>

\* Line 187: data["id"] = next(self._id), at the end of the repetition
RepEnd ==
    /\ pc = "combo"
    /\ combo > ProductLen(task)
    /\ data' = [data EXCEPT !.id = next_id]
    /\ next_id' = next_id + 1
    /\ rep' = rep + 1
    /\ pc' = "rep"
    /\ UNCHANGED <<task, combo, challenge, model, total_control_cost, horizon, calls,
                   constructed, failure>>
    /\ UNCHANGED <<cfgVars, otherVars, cellVars, revealed, callVars>>
    /\ UNCHANGED <<n_curr, n_prevs, error_prev, error_curr, increment, history,
                   best_answer, n_lower, n_upper, error_lower, error_upper, n_target,
                   exp_probed, reprobed>>

\* Line 188: return pd.DataFrame(data)
EvaluateReturn ==
    /\ pc = "rep"
    /\ rep >= task.reps
    /\ pc' = "returned"
    /\ UNCHANGED evalVars
    /\ UNCHANGED <<cfgVars, otherVars, cellVars, revealed, callVars>>
    /\ UNCHANGED <<n_curr, n_prevs, error_prev, error_curr, increment, history,
                   best_answer, n_lower, n_upper, error_lower, error_upper, n_target,
                   exp_probed, reprobed>>

DimLists  == {<<1>>, <<MaxDim>>, <<1, MaxDim>>, <<MaxDim, 1>>}
TimeLists == {<<1>>, <<MaxTimesteps>>, <<1, MaxTimesteps>>}
Ceiling   == 2 * HalfCeiling

\* Sweeps over the dimensions and the timesteps, with a model that never
\* controls
SweepTasks ==
    [N : {<<1>>}, L : DimLists, E : DimLists, T : TimeLists, C : {<<Ceiling>>},
     control_horizons : {1}, reps : 0..MaxReps,
     test_timesteps : {1, MaxTimesteps}, controls : {FALSE}]

\* Sweeps over the cost ceilings with a model that controls, the test set
\* as long as the training trajectories
TrainerTasks ==
    {tk \in [N : {<<1>>}, L : {<<1>>}, E : {<<1>>}, T : {<<1>>, <<MaxTimesteps>>},
             C : {<<Ceiling>>, <<0, Ceiling>>},
             control_horizons : 1..MaxHorizons, reps : {1, MaxReps},
             test_timesteps : {1, MaxTimesteps}, controls : {TRUE}] :
        tk.test_timesteps = tk.T[1]}

\* Task.__init__ and the entry of evaluate (lines 116-142)
EvalInit ==
    /\ task \in SweepTasks \cup TrainerTasks
    /\ next_id = 0 /\ rep = 0 /\ combo = 0
    /\ challenge = None /\ model = None
    /\ total_control_cost = 0 /\ horizon = 0 /\ calls = <<>>
    /\ data = [rows |-> <<>>, id |-> None]
    /\ constructed = [challenges |-> 0, models |-> 0]
    /\ failure = None
    /\ curve = "free"
    /\ n_start = 1 /\ n_precision = 0 /\ n_window = 0 /\ n_max = 1
    /\ target_error = Rat(TargetErr)
    /\ test_ood = FALSE
    /\ noisy = FALSE
    /\ CellInit
    /\ SearchLocalsInit
    /\ CallsInit
    /\ Alone
    /\ pc = "rep"

EvalNext ==
    \/ RepBegin
    \/ ComboSkip
    \/ ComboBegin
    \/ Horizon
    \/ BudgetCheck
    \/ TestAndRecord
    \/ RepEnd
    \/ EvaluateReturn

EvalSpec == EvalInit /\ [][EvalNext]_vars

----------------------------------------------------------------------------
(* What a finished search has observed.  The error curve of a cell is the  *)
(* collaborators' answer for each n; the search sees it only at the n it   *)
(* trained, and behaves the same on every curve that agrees with the memo  *)
(* at those n.  A statement about "every curve of shape S" is therefore    *)
(* checked as a statement about every finished search whose memo agrees    *)
(* with some curve of shape S.                                             *)

Returned  == pc = "done"
Evaluated == DOMAIN memo
ErrAt(n)  == memo[n][1]

\* The memo agrees with a curve that never increases
ObservedNonIncreasing ==
    \A a \in Evaluated : \A b \in Evaluated : a < b => Le(ErrAt(b), ErrAt(a))

\* The memo agrees with a curve that stays above the target
ObservedAboveTarget == \A n \in Evaluated : Gt(ErrAt(n), target_error)

\* The memo agrees with a non-increasing curve whose first n at or below
\* the target is ns
AgreesWithMinimum(ns) ==
    /\ ObservedNonIncreasing
    /\ \A n \in Evaluated : Le(ErrAt(n), target_error) <=> n >= ns

\* The memo agrees with a curve that strictly decreases down to some m
\* inside 1..n_max and strictly increases from m on
ObservedValley ==
    \E m \in 2..(n_max - 1) :
        /\ \A a \in Evaluated : \A b \in Evaluated :
              (a < b /\ b <= m) => Gt(ErrAt(a), ErrAt(b))
        /\ \A a \in Evaluated : \A b \in Evaluated :
              (m <= a /\ a < b) => Lt(ErrAt(a), ErrAt(b))

----------------------------------------------------------------------------
(* C1: in the end-to-end scenario (error 1/n, target 0.1, n_start 1,     *)
(* n_window 0, n_precision 1, n_max 100) search() returns an n within 1   *)
(* of 10.                                                                 *)
C1_ScenarioWithinOneOfTen ==
    (Returned /\ curve = "inv") => (n_target >= 10 - 1 /\ n_target <= 10 + 1)

(* C2: for n_window = 0 and a non-increasing error curve that reaches the  *)
(* target within n_max, a positive n returned by search() is within        *)
(* n_precision of the true minimal n with error <= target.                 *)
C2_MinimumWithinPrecision ==
    (Returned /\ n_window = 0 /\ n_target \in 1..n_max) =>
        \A ns \in 1..n_max :
            AgreesWithMinimum(ns) =>
                (n_target - n_precision <= ns /\ ns <= n_target + n_precision)

(* C3: if the error is above the target at every n, whatever     *)
(* the shape of the curve, search() returns -1.                            *)
C3_UnreachableReturnsMinusOne ==
    (Returned /\ ObservedAboveTarget) => n_target = 0 - 1

(* C4: if the error curve first decreases and then increases and its       *)
(* minimum stays above the target, search() returns +infinity.             *)
C4_ValleyAboveTargetReturnsInfinity ==
    (Returned /\ n_window = 0 /\ Evaluated # {} /\ ObservedAboveTarget /\ ObservedValley)
        => n_target = Infinity

(* C5: search() returns -1 only if no n it evaluated had an error at or    *)
(* below the target, that is, best_answer is still +infinity.              *)
C5_MinusOneOnlyIfNeverReached ==
    (Returned /\ n_target = 0 - 1) =>
        /\ best_answer = Infinity
        /\ n_window = 0 => \A n \in Evaluated : ~Le(ErrAt(n), target_error)

(* C6: every value search() returns is -1, +infinity or an integer in      *)
(* 1..n_max.                                                               *)
C6_ReturnValueDomain ==
    Returned => (n_target = 0 - 1 \/ n_target = Infinity \/ n_target \in 1..n_max)

C6_Witness ==
    /\ Returned /\ n_target \in 1..n_max /\ n_upper > 0
    /\ \E n \in Evaluated : Halve(n) = 1 /\ n > 1

(* C7: search() terminates, and the exponential phase never runs the       *)
(* model for the same (n_curr, increment) pair twice.                      *)
C7_SearchTerminates == <>Returned /\ [](~reprobed)

C7_Witness == Returned /\ CycleDetected(history, n_curr, increment) /\ n_curr <= n_max

FairSpec == Spec /\ WF_vars(Next)

----------------------------------------------------------------------------
(* Claims about model_run called directly (ModelRunSpec) *)

RowsFor(n) == {i \in DOMAIN result : result[i].n = n}

(* C8: within one system_run, model_run(n, 0) called again with an n that  *)
(* was run before returns the memoized (error, cost) pair and trains       *)
(* nothing and appends no row; the first call for n trains one model,      *)
(* appends one row and memoizes what it returns; a memo entry never        *)
(* changes, so both calls return the identical pair and n has exactly one  *)
(* result row in total.                                                    *)
C8_SecondCallIsMemoized ==
    /\ [][(last_call'.calls > last_call.calls /\ last_call'.window = 0) =>
            /\ \A k \in DOMAIN memo : k \in DOMAIN memo' /\ memo'[k] = memo[k]
            /\ last_call'.n \in DOMAIN memo'
            /\ last_call'.ret = memo'[last_call'.n]
            /\ IF last_call'.n \in DOMAIN memo
               THEN /\ result' = result
                    /\ models_trained' = models_trained
                    /\ memo' = memo
               ELSE /\ Len(result') = Len(result) + 1
                    /\ models_trained' = models_trained + 1]_vars
    /\ [](\A n \in DOMAIN memo : Cardinality(RowsFor(n)) = 1)

C8_Witness ==
    /\ last_call.calls >= 2 /\ last_call.window = 0 /\ last_call.fresh = {}
    /\ models_trained = 1 /\ Len(result) = 1
    /\ last_call.ret = memo[last_call.n]

\* The range the documentation of the window gives: both ends inclusive
ClaimedWindow(n, window) == Max(1, n - window)..Min(n + window, n_max)

MedianOver(lo, hi, j) == Median([i \in 1..Max(0, hi - lo + 1) |-> memo[lo + i - 1][j]])

(* C9: model_run(n, w) with w > 0 evaluates every integer of               *)
(* max(1, n-w)..min(n+w, n_max) and only those, and returns the median     *)
(* error and the median cost over that range; with w = 0 it returns the    *)
(* evaluation at n.                                                        *)
C9_WindowIsClampedInclusiveRange ==
    last_call.calls > 0 =>
        IF last_call.window > 0
        THEN LET lo == Max(1, last_call.n - last_call.window)
                 hi == Min(last_call.n + last_call.window, n_max)
             IN  /\ ClaimedWindow(last_call.n, last_call.window) \subseteq DOMAIN memo
                 /\ last_call.fresh \subseteq ClaimedWindow(last_call.n, last_call.window)
                 /\ SameNumber(last_call.ret[1], MedianOver(lo, hi, 1))
                 /\ SameNumber(last_call.ret[2], MedianOver(lo, hi, 2))
        ELSE /\ last_call.n \in DOMAIN memo
             /\ last_call.ret = memo[last_call.n]

----------------------------------------------------------------------------
(* Claims about the trajectory pool (PoolSpec) *)

\* The pool after get_training_set(n) on a fresh cell with the same seed
DirectPool(n) == GetTrainingSet(FreshCell.master, FreshCell.draws, n).master

FirstOfPool(n) == SubSeq(master_training_set, 1, n)

----------------------------------------------------------------------------
(* The closed-loop trainer as Task.evaluate has run it for the combination *)
(* at hand: the costs of its controls in the order they were charged.      *)
RECURSIVE ControlCosts(_)
ControlCosts(log) ==
    IF log = <<>> THEN <<>>
    ELSE IF Head(log).op = "calc_control_cost"
         THEN <<Head(log).cost>> \o ControlCosts(Tail(log))
         ELSE ControlCosts(Tail(log))

RECURSIVE SumSeq(_)
SumSeq(sq) == IF sq = <<>> THEN 0 ELSE Head(sq) + SumSeq(Tail(sq))

\* some control costs more than the budget that remains when it is charged
OverBudget(costs, ceiling) ==
    \E k \in 1..Len(costs) : costs[k] > ceiling - SumSeq(SubSeq(costs, 1, k - 1))

RowsOf(r, k) == {q \in DOMAIN data.rows : data.rows[q].rep = r /\ data.rows[q].combo = k}

(* C11: with control_horizons = 3 and a cost of exactly half the ceiling   *)
(* in each of the two controlled horizons the accumulated cost equals the  *)
(* ceiling and the run does not fail; with non-negative costs, a run in    *)
(* which some control costs more than the budget remaining at that point   *)
(* fails the "Control cost exceeded!" assertion and records no row.        *)
C11_BudgetAssertion ==
    (pc \in {"test", "failed"}) =>
        LET costs   == ControlCosts(calls)
            ceiling == Combination.max_control_cost
        IN  /\ (task.control_horizons = 3 /\ Len(costs) = 2
                  /\ 2 * costs[1] = ceiling /\ 2 * costs[2] = ceiling) =>
                    /\ total_control_cost = ceiling
                    /\ failure # "Control cost exceeded!"
            /\ OverBudget(costs, ceiling) =>
                    /\ pc = "failed"
                    /\ failure = "Control cost exceeded!"
                    /\ RowsOf(rep, combo) = {}

C11_Witness ==
    /\ pc = "test"
    /\ task.control_horizons = 3
    /\ Combination.max_control_cost = Ceiling
    /\ ControlCosts(calls) = <<HalfCeiling, HalfCeiling>>
    /\ total_control_cost = Ceiling

\* the combinations of the product that are not passed over
ValidCombinations(tk) == {k \in 1..ProductLen(tk) : ~Skipped(ProductAt(tk, k))}

(* C12: Task.evaluate records exactly one row for every repetition and     *)
(* every combination with E >= L, and for a combination with E < L it      *)
(* constructs no model and records no row, so that the returned table has  *)
(* reps * |{combinations with E >= L}| rows. A run that stops on the       *)
(* "Control cost exceeded!" assertion is left aside.                       *)
C12_OneRowPerValidCombination ==
    /\ constructed.models
          = Len(data.rows) + (IF pc \in {"horizon", "test", "failed"} THEN 1 ELSE 0)
    /\ (pc \in {"returned", "failed"} /\ failure # "Control cost exceeded!") =>
          /\ pc = "returned"
          /\ \A r \in 0..(task.reps - 1) : \A k \in 1..ProductLen(task) :
                Cardinality(RowsOf(r, k)) = (IF k \in ValidCombinations(task) THEN 1 ELSE 0)
          /\ Len(Table) = task.reps * Cardinality(ValidCombinations(task))

(* C13: in the table that Task.evaluate returns, the rows recorded in a    *)
(* later repetition carry a strictly larger identifier than the rows       *)
(* recorded in an earlier repetition, and the rows of one repetition carry *)
(* the same identifier.                                                    *)
C13_IdentifierGrowsWithRepetition ==
    (pc = "returned") =>
        \A p, q \in DOMAIN Table :
            /\ (Table[p].row.rep < Table[q].row.rep) => (Table[p].id < Table[q].id)
            /\ (Table[p].row.rep = Table[q].row.rep) => (Table[p].id = Table[q].id)

\* the calls of the closed-loop trainer, without the two of lines 158-159
TrainerCalls == SubSeq(calls, 3, Len(calls))

CountOf(log, op) == Cardinality({k \in DOMAIN log : log[k].op = op})

\* the last state of the batch x of the model's training timesteps
LastStateOfX == [of |-> "x", at |-> model.timesteps - 1]

(* C16: for H = control_horizons, horizon 0 fits on the uncontrolled batch *)
(* without calling act; each horizon 1..H-1 calls act on the current       *)
(* batch, adds the cost of the control to the running total, generates the *)
(* new batch from the last state of the previous batch under that control  *)
(* and then fits on it; fit is called H times and act and the cost H-1     *)
(* times.                                                                  *)
C16_ClosedLoopStepOrder ==
    (pc = "horizon" /\ horizon = task.control_horizons) =>
        LET log   == TrainerCalls
            H     == task.control_horizons
            costs == ControlCosts(calls)
        IN  /\ CountOf(log, "fit") = H
            /\ CountOf(log, "act") = H - 1
            /\ CountOf(log, "calc_control_cost") = H - 1
            /\ total_control_cost = SumSeq(costs)
            /\ Len(log) = 4 * H - 2
            /\ log[1].op = "make_data" /\ log[1].init.of = "train_init_conds"
            /\ log[2].op = "fit"
            /\ \A j \in 1..(H - 1) :
                  /\ log[4 * j - 1].op = "act"
                  /\ log[4 * j].op = "calc_control_cost"
                  /\ log[4 * j + 1].op = "make_data"
                  /\ log[4 * j + 1].init = LastStateOfX
                  /\ log[4 * j + 2].op = "fit"

(* C14: in the binary phase n_lower < n_upper on entry, and at the start   *)
(* of every iteration, before the bracket is narrowed,                     *)
(* error(n_lower) > target_error > error(n_upper).                         *)
C14_BracketInvariant ==
    (pc = "bin") =>
        /\ n_lower < n_upper
        /\ Gt(error_lower, target_error)
        /\ Gt(target_error, error_upper)

(* C15: in the binary phase an iteration that does not return probes a     *)
(* midpoint strictly between n_lower and n_upper and strictly shrinks      *)
(* n_upper - n_lower, keeping the new bracket inside the old one; the loop *)
(* returns exactly when n_upper - n_lower <= max(n_precision, 1), and it   *)
(* returns ceil((n_lower + n_upper) / 2), which lies in (n_lower, n_upper] *)
(* and so in the bracket the phase was entered with.                       *)
C15_BinaryPhaseNarrows ==
    [][/\ (pc = "bin_start") =>
              /\ n_lower' = n_prevs[Len(n_prevs)]
              /\ n_lower' < n_upper'
       /\ (pc = "bin" /\ WithinPrecision(n_lower, n_upper)) =>
              /\ pc' = "done"
              /\ n_target' = CeilHalf(n_lower + n_upper)
              /\ n_lower < n_target' /\ n_target' <= n_upper
              /\ n_prevs[Len(n_prevs)] < n_target'
              /\ memo' = memo
       /\ (pc = "bin" /\ ~WithinPrecision(n_lower, n_upper)) =>
              /\ pc' = "bin"
              /\ n_lower < n_curr' /\ n_curr' < n_upper
              /\ n_curr' \in DOMAIN memo'
              /\ n_lower <= n_lower' /\ n_upper' <= n_upper
              /\ n_lower' < n_upper'
              /\ n_upper' - n_lower' < n_upper - n_lower]_vars

C15_Witness ==
    /\ pc = "done"
    /\ n_upper > 0
    /\ n_prevs[Len(n_prevs)] < n_lower
    /\ n_upper - n_lower <= Max(n_precision, 1)
    /\ n_target = CeilHalf(n_lower + n_upper)

\* the n that the exponential phase has run the model on so far
ProbedInExp == {p[1] : p \in exp_probed}

\* the error that model_run(n, n_window) returns for an n already evaluated
ErrorOf(n) == ModelRun(Cell, n, n_window, <<>>).ret[1]

MeetsTarget == {n \in ProbedInExp : Le(ErrorOf(n), target_error)}

(* C17: when the cycle guard fires, search() returns best_answer, which is *)
(* the smallest n evaluated so far in the exponential phase whose error is *)
(* <= target_error, or +infinity if no evaluated n met the target.         *)
C17_CycleReturnsBestAnswer ==
    [][(pc = "exp" /\ ~(n_curr > n_max) /\ CycleDetected(history, n_curr, increment)) =>
            /\ pc' = "done"
            /\ n_target' = best_answer
            /\ IF MeetsTarget = {}
               THEN n_target' = Infinity
               ELSE /\ n_target' \in MeetsTarget
                    /\ \A n \in MeetsTarget : n_target' <= n]_vars

\* with n_precision = 0 and no binary phase, a search that returned an n it
\* evaluated returned through the cycle guard
C17_Witness ==
    /\ pc = "done"
    /\ n_precision = 0 /\ n_upper = 0
    /\ CycleDetected(history, n_curr, increment)
    /\ n_target = best_answer
    /\ n_target \in MeetsTarget
    /\ Cardinality(MeetsTarget) > 1

\* an iteration of the exponential phase that moved forward (lines 356-360
\* and 364-367)
ForwardStep == pc = "exp" /\ pc' = "exp" /\ n_prevs' = Append(n_prevs, n_curr)

\* the cap of the increment, never below the 1 the increment starts with
IncrementCap == Max(1, n_max \div IncrementDivisor)

(* C18: throughout the exponential phase the increment is never below 1    *)
(* and never above n_max/10 (nor above 1 where n_max < 10), it doubles at  *)
(* each forward step until capped, and every forward step strictly         *)
(* increases n_curr, for every n_max >= 1.                                 *)
C18_IncrementAtLeastOne ==
    /\ [](pc = "exp" => (1 <= increment /\ increment <= IncrementCap))
    /\ [][ForwardStep =>
             /\ n_curr' > n_curr
             /\ increment' = Min(increment * MultiplicativeFactor, IncrementCap)]_vars

(* C19: within one system_run the result table holds exactly one row per   *)
(* evaluated n: rows and memo keys are in one-to-one correspondence, a     *)
(* memo entry once written is never changed or removed, and every n that   *)
(* search() has probed has a row, whether or not it is the final answer.   *)
C19_RowForEveryProbedN ==
    /\ [][\A k \in DOMAIN memo : k \in DOMAIN memo' /\ memo'[k] = memo[k]]_vars
    /\ [](/\ \A n \in DOMAIN memo : Cardinality(RowsFor(n)) = 1
          /\ \A q \in DOMAIN result : result[q].n \in DOMAIN memo
          /\ \A n \in ProbedInExp : RowsFor(n) # {}
          /\ (pc = "bin") => (RowsFor(n_lower) # {} /\ RowsFor(n_upper) # {}))

\* the largest n requested so far, or the initial pool size if that is larger
RECURSIVE LargestRequested(_)
LargestRequested(reqs) ==
    IF reqs = <<>> THEN InitialPoolSize
    ELSE Max(Head(reqs), LargestRequested(Tail(reqs)))

(* C20: get_training_set(n) returns exactly n trajectories; the pool       *)
(* starts with 10 trajectories, its size never decreases, the entries it   *)
(* holds are never modified, and after any sequence of requests its size   *)
(* is max(10, largest n requested so far).                                 *)
C20_PoolSizeIsLargestRequest ==
    /\ [][/\ Len(master_training_set') >= Len(master_training_set)
          /\ \A k \in DOMAIN master_training_set :
                 master_training_set'[k] = master_training_set[k]
          /\ Len(requested') > Len(requested) =>
                 Len(returned') = requested'[Len(requested')]]_vars
    /\ [](Len(master_training_set) = LargestRequested(requested))
    /\ [](requested = <<>> => Len(master_training_set) = 10)

C20_Witness ==
    /\ Len(requested) = 3
    /\ requested[1] > InitialPoolSize
    /\ requested[2] < InitialPoolSize
    /\ requested[3] > requested[1]
    /\ Len(returned) = requested[3]
    /\ Len(master_training_set) = requested[3]

\* the combinations before the one at hand were all passed over
FirstValidCombination == \A k \in 1..(combo - 1) : Skipped(ProductAt(task, k))

(* C21: in Task.evaluate a system instance is constructed at most once per *)
(* repetition, at the first combination with E >= L, and reused for all    *)
(* the later combinations of the repetition; when a combination is trained *)
(* and tested the instance has the L and the E of that combination.        *)
C21_OneSystemPerRepetition ==
    /\ []((pc \in {"horizon", "test"}) =>
            /\ challenge # None
            /\ challenge.latent_dim = Combination.latent_dim
            /\ challenge.embed_dim = Combination.embed_dim)
    /\ [](task # None =>
            constructed.challenges
               <= (IF pc \in {"rep", "returned"} THEN rep ELSE rep + 1))
    /\ [][/\ (constructed.challenges' # constructed.challenges) =>
                /\ constructed.challenges' = constructed.challenges + 1
                /\ challenge = None
                /\ pc = "combo" /\ ~Skipped(Combination) /\ FirstValidCombination
          /\ (challenge # None /\ challenge' # None) =>
                challenge'.instance = challenge.instance]_vars

C21_Witness ==
    /\ pc = "test"
    /\ rep = 1
    /\ constructed.challenges = 2
    /\ challenge.instance = 2
    /\ \E q \in RowsOf(rep, 1) :
          /\ combo > 1
          /\ data.rows[q].embed_dim # challenge.embed_dim

----------------------------------------------------------------------------
(* Claims about two interleaved system_run invocations (CellsSpec) *)

\* The parameters and locals of invocation k, running or suspended
CellView(k) == IF running = k THEN Frame ELSE suspended

\* The fields of the FixedError object that system_run reads
SelfFields == <<n_precision, n_window, n_max, target_error>>

\* the n of the result rows of a frame, in the order they were appended
RowNs(fr) == [q \in DOMAIN fr.result |-> fr.result[q].n]

(* C22: two system_run invocations interleaved in any order each own their *)
(* system, trajectory pool, memo and result rows, and system_run writes no *)
(* field of the shared FixedError object: every step either is a step of   *)
(* the running invocation exactly as when it runs alone, or leaves an      *)
(* invocation as it was, so that each cell's n_target and rows are those   *)
(* of the cell run alone (for the documented scenario from n_start = 1:    *)
(* rows for n = 1, 2, 4, 8, 16, 12, 10, 11 and n_target = 12).             *)
C22_CellsShareNothing ==
    /\ [][/\ SelfFields' = SelfFields
          /\ \A k \in {1, 2} :
                \/ CellView(k)' = CellView(k)
                \/ running = k /\ running' = k /\ Next]_vars
    /\ [](\A k \in {1, 2} :
            (CellView(k).pc = "done" /\ CellView(k).curve = "inv"
                /\ CellView(k).n_start = 1 /\ n_max = 100) =>
               /\ CellView(k).n_target = 12
               /\ RowNs(CellView(k)) = <<1, 2, 4, 8, 16, 12, 10, 11>>)

C22_Witness ==
    /\ running = 1
    /\ pc = "done"
    /\ Len(result) > 0
    /\ suspended # None
    /\ suspended.pc = "bin"
    /\ suspended.memo # memo
    /\ suspended.result # result

----------------------------------------------------------------------------
(* Claims about what search() returns (Spec) *)

\* search() returned a positive integer
ReturnedPositiveInteger == pc = "done" /\ n_target >= 1 /\ n_target # Infinity

(* C23: with n_precision <= 1 and n_window = 0, every positive integer     *)
(* that search() returns is an n that was evaluated in this system_run (it *)
(* has a result row) and whose evaluated error is <= target_error.         *)
C23_ReturnedNWasEvaluatedAndMeetsTarget ==
    (ReturnedPositiveInteger /\ n_precision <= 1 /\ n_window = 0) =>
        /\ n_target \in DOMAIN memo
        /\ RowsFor(n_target) # {}
        /\ Le(memo[n_target][1], target_error)
        /\ \A q \in RowsFor(n_target) : Le(result[q].error, target_error)

C23_Witness ==
    /\ ReturnedPositiveInteger /\ n_precision <= 1 /\ n_window = 0
    /\ n_upper > 0 /\ n_target = n_upper
    /\ n_lower > n_prevs[Len(n_prevs)]
    /\ Le(memo[n_target][1], target_error)

\* search() returned without entering the binary phase
ReturnedFromExponentialPhase == pc = "done" /\ n_upper = 0

(* C24: for any n_precision >= 0, a positive integer that search() returns *)
(* from the exponential phase (an early "no more backing up can be done"   *)
(* return or a cycle-guard return, without entering the binary phase) is   *)
(* an n whose evaluated error is <= target_error.                          *)
C24_ExponentialReturnMeetsTarget ==
    (ReturnedPositiveInteger /\ ReturnedFromExponentialPhase) =>
        /\ n_target \in ProbedInExp
        /\ Le(ErrorOf(n_target), target_error)

(* C25: no model is ever trained on more than n_max trajectories: every n  *)
(* handed to a single-n evaluation during search() (exponential phase,     *)
(* binary phase and every member of a window) lies in 1..n_max, so the     *)
(* trajectory pool never grows beyond max(10, n_max).                      *)
C25_NeverTrainedBeyondNMax ==
    /\ DOMAIN memo \subseteq 1..n_max
    /\ DOMAIN revealed \subseteq 1..n_max
    /\ \A q \in DOMAIN result : result[q].n \in 1..n_max
    /\ models_trained = Cardinality(DOMAIN memo)
    /\ Len(master_training_set) <= Max(InitialPoolSize, n_max)

C25_Witness ==
    /\ pc = "done"
    /\ n_max > InitialPoolSize
    /\ n_max \in DOMAIN memo
    /\ Len(master_training_set) = n_max

----------------------------------------------------------------------------
(* Claims about the test-time prediction of Task.evaluate (EvalSpec) *)

(* C26: in Task.evaluate the prediction requested from the model has as    *)
(* many timesteps as the generated test set (test_timesteps), so that with *)
(* a model and a system that keep their shape contracts the assertions on  *)
(* the prediction's shape and on the loss's shapes never fail, whatever    *)
(* the training timesteps T and test_timesteps.                            *)
C26_PredictionAsLongAsTestSet ==
    /\ (pc = "test") => PredictedTimesteps(model) = task.test_timesteps
    /\ failure # "calc_loss: x.shape == y.shape"

====
